---- MODULE Spec2Model ----
(***************************************************************************)
(* A model of the daily-log visualizer: the log parser (js/parser.js), the *)
(* categorizer (js/api.js), the analyzer (js/analyzer.js) and the analysis *)
(* session that main.js drives (handleAnalyzeLog, generateAIAdviceAsync,   *)
(* updateDashboard, handleKanbanDrop).                                     *)
(*                                                                         *)
(* Representation of text.  A string is a sequence of glyphs.  A glyph is  *)
(* a record [k, h, m]: k names the glyph, h and m are the two numeric      *)
(* fields of a "HH:MM" token (k = "time") and 0 otherwise.  The glyphs the *)
(* patterns of constants.js look at are kept apart: "sp" (white space),    *)
(* "dash" (-), "gt" (>), "v", "tilde" (~), "pipe" (|), "bar" (the heavy    *)
(* bar glyph) and "time" (two digits, a colon, two digits).  Every other   *)
(* glyph is a word, named in romanised form; a word is atomic, so a        *)
(* keyword is found in a content when it occurs in one of its words.       *)
(* A raw text is the sequence of its lines (the result of split('\n')).    *)
(***************************************************************************)
EXTENDS Integers, Sequences, FiniteSets, TLC

Ch(c) == [k |-> c, h |-> 0, m |-> 0]

Tm(hh, mm) == [k |-> "time", h |-> hh, m |-> mm]

\* ------------------------------------------------------------ constants.js

WORK == "work"
ROUTINE == "routine"
DEVELOPMENT == "development"
FAMILY == "family"
SOCIAL == "social"
RELAX_BED == "resting"

CATEGORY_ORDER == <<WORK, DEVELOPMENT, ROUTINE, FAMILY, SOCIAL, RELAX_BED>>

CATEGORIES == {CATEGORY_ORDER[i] : i \in DOMAIN CATEGORY_ORDER}

MINUTES_PER_HOUR == 60
MINUTES_PER_DAY == 1440
ENERGY_CHANGE == 2

\* ---------------------------------------------------------------- strings

RECURSIVE SkipSpaces(_, _)
\* The first position at or after i that holds no white space (Len(s)+1 if none).
SkipSpaces(s, i) ==
    IF i <= Len(s) /\ s[i].k = "sp" THEN SkipSpaces(s, i + 1) ELSE i

RECURSIVE LastNonSpace(_, _)
\* The last position at or before i that holds no white space (0 if none).
LastNonSpace(s, i) ==
    IF i >= 1 /\ s[i].k = "sp" THEN LastNonSpace(s, i - 1) ELSE i

\* String.prototype.trim
trim(s) == SubSeq(s, SkipSpaces(s, 1), LastNonSpace(s, Len(s)))

NoMatch == [matched |-> FALSE, cap |-> <<>>]

\* /^\s*[-]?\s*M\s*(.*)/ for the marker glyph M: the match and its capture 1.
MarkerMatch(s, marker) ==
    LET i0 == SkipSpaces(s, 1)
        i1 == IF i0 <= Len(s) /\ s[i0].k = "dash" THEN i0 + 1 ELSE i0
        i2 == SkipSpaces(s, i1)
    IN  IF i2 <= Len(s) /\ s[i2].k = marker
        THEN [matched |-> TRUE, cap |-> SubSeq(s, SkipSpaces(s, i2 + 1), Len(s))]
        ELSE NoMatch

\* PATTERNS.THOUGHT
MatchThought(s) == MarkerMatch(s, "gt")

\* PATTERNS.ACTION
MatchAction(s) == MarkerMatch(s, "v")

\* Whether /(\d{2}:\d{2})\s*~\s*(\d{2}:\d{2})/ matches starting at position i.
TimeHeaderAt(s, i) ==
    /\ i <= Len(s) /\ s[i].k = "time"
    /\ LET j == SkipSpaces(s, i + 1)
       IN  /\ j <= Len(s) /\ s[j].k = "tilde"
           /\ LET e == SkipSpaces(s, j + 1)
              IN  e <= Len(s) /\ s[e].k = "time"

\* PATTERNS.TIME_HEADER: the leftmost match; from/to bound match[0].
MatchTimeHeader(s) ==
    LET starts == {i \in 1..Len(s) : TimeHeaderAt(s, i)}
    IN  IF starts = {}
        THEN [matched |-> FALSE, from |-> 0, to |-> 0, g1 |-> <<0, 0>>, g2 |-> <<0, 0>>]
        ELSE LET i == CHOOSE x \in starts : \A y \in starts : x <= y
                 e == SkipSpaces(s, SkipSpaces(s, i + 1) + 1)
             IN  [matched |-> TRUE, from |-> i, to |-> e,
                  g1 |-> <<s[i].h, s[i].m>>, g2 |-> <<s[e].h, s[e].m>>]

IsBar(g) == g.k = "bar" \/ g.k = "pipe"

RECURSIVE RunEnd(_, _)
\* The last position of the run of bar glyphs that starts at position i.
RunEnd(s, i) ==
    IF i + 1 <= Len(s) /\ IsBar(s[i + 1]) THEN RunEnd(s, i + 1) ELSE i

\* PATTERNS.BARS, /([bars]+)/: the leftmost, longest run of bar glyphs.
MatchBars(s) ==
    LET at == {i \in 1..Len(s) : IsBar(s[i])}
    IN  IF at = {}
        THEN [matched |-> FALSE, from |-> 0, to |-> 0]
        ELSE LET i == CHOOSE x \in at : \A y \in at : x <= y
             IN  [matched |-> TRUE, from |-> i, to |-> RunEnd(s, i)]

\* --------------------------------------------------------------- parser.js

\* Number(): the value of a two-digit field.
ToMinutes(t) == t[1] * MINUTES_PER_HOUR + t[2]

\* calculateDuration adding a day to a difference of zero as well.
calculateDuration_zeroWraps(start, end) ==
    LET minutes == ToMinutes(end) - ToMinutes(start)
    IN  IF minutes <= 0 THEN minutes + MINUTES_PER_DAY ELSE minutes

calculateDuration(start, end) ==
    LET minutes == ToMinutes(end) - ToMinutes(start)
    IN  IF minutes < 0 THEN minutes + MINUTES_PER_DAY ELSE minutes

\* calculateImmersionLevel with an upper bound of 5.
calculateImmersionLevel_capped(bars) == IF Len(bars) > 5 THEN 5 ELSE Len(bars)

calculateImmersionLevel(bars) == Len(bars)

\* parseTimeEntry taking the 0-based index of the line for the id.
parseTimeEntry_zeroBased(line, timeMatch, index) ==
    LET rest0 == SubSeq(line, timeMatch.to + 1, Len(line))
        barsMatch == MatchBars(rest0)
        immersion == IF barsMatch.matched
                     THEN calculateImmersionLevel(
                              SubSeq(rest0, barsMatch.from, barsMatch.to))
                     ELSE 0
        rest == IF barsMatch.matched
                THEN SubSeq(rest0, 1, barsMatch.from - 1)
                         \o SubSeq(rest0, barsMatch.to + 1, Len(rest0))
                ELSE rest0
    IN  [id |-> index,
         start |-> timeMatch.g1,
         end |-> timeMatch.g2,
         content |-> trim(rest),
         immersion |-> immersion,
         duration |-> calculateDuration(timeMatch.g1, timeMatch.g2),
         category |-> ROUTINE]

parseTimeEntry(line, timeMatch, index) ==
    LET rest0 == SubSeq(line, timeMatch.to + 1, Len(line))
        barsMatch == MatchBars(rest0)
        immersion == IF barsMatch.matched
                     THEN calculateImmersionLevel(
                              SubSeq(rest0, barsMatch.from, barsMatch.to))
                     ELSE 0
        \* rest.replace(barsMatch[0], ''): the first occurrence of the run is
        \* the match itself, since nothing before it is a bar glyph
        rest == IF barsMatch.matched
                THEN SubSeq(rest0, 1, barsMatch.from - 1)
                         \o SubSeq(rest0, barsMatch.to + 1, Len(rest0))
                ELSE rest0
    IN  [id |-> index + 1,
         start |-> timeMatch.g1,
         end |-> timeMatch.g2,
         content |-> trim(rest),
         immersion |-> immersion,
         duration |-> calculateDuration(timeMatch.g1, timeMatch.g2),
         category |-> ROUTINE]

EmptyParse == [entries |-> <<>>, thoughts |-> <<>>, actions |-> <<>>]

\* The body of lines.forEach testing the time header before the markers.
ParseLine_timeFirst(acc, line, index) ==
    LET cleanLine == trim(line)
        thoughtMatch == MatchThought(cleanLine)
        actionMatch == MatchAction(cleanLine)
        timeMatch == MatchTimeHeader(cleanLine)
    IN  IF cleanLine = <<>> THEN acc
        ELSE IF timeMatch.matched
        THEN [acc EXCEPT !.entries =
                 Append(@, parseTimeEntry(cleanLine, timeMatch, index))]
        ELSE IF thoughtMatch.matched
        THEN [acc EXCEPT !.thoughts = Append(@, trim(thoughtMatch.cap))]
        ELSE IF actionMatch.matched
        THEN [acc EXCEPT !.actions = Append(@, trim(actionMatch.cap))]
        ELSE acc

\* The body of lines.forEach for the line at 0-based position index.
ParseLine(acc, line, index) ==
    LET cleanLine == trim(line)
        thoughtMatch == MatchThought(cleanLine)
        actionMatch == MatchAction(cleanLine)
        timeMatch == MatchTimeHeader(cleanLine)
    IN  IF cleanLine = <<>> THEN acc
        ELSE IF thoughtMatch.matched
        THEN [acc EXCEPT !.thoughts = Append(@, trim(thoughtMatch.cap))]
        ELSE IF actionMatch.matched
        THEN [acc EXCEPT !.actions = Append(@, trim(actionMatch.cap))]
        ELSE IF timeMatch.matched
        THEN [acc EXCEPT !.entries =
                 Append(@, parseTimeEntry(cleanLine, timeMatch, index))]
        ELSE acc

RECURSIVE ParseFrom(_, _, _)
ParseFrom(lines, i, acc) ==
    IF i > Len(lines) THEN acc
    ELSE ParseFrom(lines, i + 1, ParseLine(acc, lines[i], i - 1))

parseLogText(rawText) == ParseFrom(rawText, 1, EmptyParse)

\* a.start.localeCompare(b.start) <= 0 for fixed-width "HH:MM" strings.
StartLeq(a, b) ==
    \/ a.start[1] < b.start[1]
    \/ a.start[1] = b.start[1] /\ a.start[2] <= b.start[2]

RECURSIVE InsertByStart(_, _)
\* e placed after every element that does not start later (the sort is stable).
InsertByStart(e, sorted) ==
    IF sorted = <<>> THEN <<e>>
    ELSE IF StartLeq(Head(sorted), e)
         THEN <<Head(sorted)>> \o InsertByStart(e, Tail(sorted))
         ELSE <<e>> \o sorted

RECURSIVE SortByStart(_)
\* entries.sort((a, b) => a.start.localeCompare(b.start))
SortByStart(entries) ==
    IF entries = <<>> THEN <<>>
    ELSE InsertByStart(entries[Len(entries)],
                       SortByStart(SubSeq(entries, 1, Len(entries) - 1)))

Midnight == <<0, 0>>

SleepContent == <<Ch("(auto-filled-shui-period)")>>

\* addSleepPeriodIfMissing without the sort.
addSleepPeriodIfMissing_unsorted(entries) ==
    IF Len(entries) = 0 THEN entries
    ELSE LET sleepEntry == [id |-> 0,
                            start |-> Midnight,
                            end |-> entries[1].start,
                            content |-> SleepContent,
                            immersion |-> 0,
                            duration |-> calculateDuration(Midnight, entries[1].start),
                            category |-> RELAX_BED]
         IN  IF entries[1].start # Midnight THEN <<sleepEntry>> \o entries ELSE entries

\* addSleepPeriodIfMissing without the test of the first start time.
addSleepPeriodIfMissing_always(entries) ==
    IF Len(entries) = 0 THEN entries
    ELSE LET sorted == SortByStart(entries)
             sleepEntry == [id |-> 0,
                            start |-> Midnight,
                            end |-> sorted[1].start,
                            content |-> SleepContent,
                            immersion |-> 0,
                            duration |-> calculateDuration(Midnight, sorted[1].start),
                            category |-> RELAX_BED]
         IN  <<sleepEntry>> \o sorted

addSleepPeriodIfMissing(entries) ==
    IF Len(entries) = 0 THEN entries
    ELSE LET sorted == SortByStart(entries)
             sleepEntry == [id |-> 0,
                            start |-> Midnight,
                            end |-> sorted[1].start,
                            content |-> SleepContent,
                            immersion |-> 0,
                            duration |-> calculateDuration(Midnight, sorted[1].start),
                            category |-> RELAX_BED]
         IN  IF sorted[1].start # Midnight THEN <<sleepEntry>> \o sorted ELSE sorted

\* validateEntries never throwing.
validateEntries_never(entries) == FALSE

\* TRUE when validateEntries throws.
validateEntries(entries) == Len(entries) = 0

\* The positions of the entries that entries.filter(entry => entry.id !== 0) keeps.
UserPositions(entries) == {i \in DOMAIN entries : entries[i].id # 0}

getUserEntries(entries) == SelectSeq(entries, LAMBDA e : e.id # 0)

\* ------------------------------------------------------------------ api.js

\* String.prototype.toLowerCase on a word.
toLowerCase(w) ==
    CASE w = "Sleep" -> "sleep"
      [] w = "Meeting" -> "meeting"
      [] w = "Study" -> "study"
      [] OTHER -> w

\* The pairs <<keyword, word>> where the keyword occurs inside a longer word.
Inside == {<<"nap", "snapshot">>, <<"shui", "(auto-filled-shui-period)">>}

\* lowerContent.match(/k1|k2|.../): some keyword occurs in the content.
ContentMatches(content, keywords) ==
    \E i \in DOMAIN content : \E kw \in keywords :
        \/ toLowerCase(content[i].k) = kw
        \/ <<kw, toLowerCase(content[i].k)>> \in Inside

\* shui, xiuxi, fangsong: the sleep, rest and relax keywords of line 207
RestKeywords == {"shui", "sleep", "nap", "xiuxi", "fangsong"}

\* gongzuo, kaihui, huiyi: the work and meeting keywords of line 212
WorkKeywords == {"slide", "gongzuo", "kaihui", "meeting", "huiyi"}

\* dushu, xuexi, yuedu, kaifa: the reading and learning keywords of line 217
DevelopmentKeywords == {"dushu", "xuexi", "study", "learning", "yuedu", "kaifa"}

\* jiaren, fumu, ba, ma: the family keywords of line 222
FamilyKeywords == {"jiaren", "fumu", "ba", "ma", "family"}

SLEEP_END_HOUR == 7

\* getCategoryByKeyword testing the work keywords before the sleep keywords.
getCategoryByKeyword_workFirst(content, startTime) ==
    LET hour == startTime[1]
    IN  IF ContentMatches(content, WorkKeywords) THEN WORK
        ELSE IF ContentMatches(content, RestKeywords) THEN RELAX_BED
        ELSE IF ContentMatches(content, DevelopmentKeywords) THEN DEVELOPMENT
        ELSE IF ContentMatches(content, FamilyKeywords) THEN FAMILY
        ELSE IF hour >= 0 /\ hour < SLEEP_END_HOUR THEN RELAX_BED
        ELSE ROUTINE

getCategoryByKeyword(content, startTime) ==
    LET hour == startTime[1]
    IN  IF ContentMatches(content, RestKeywords) THEN RELAX_BED
        ELSE IF ContentMatches(content, WorkKeywords) THEN WORK
        ELSE IF ContentMatches(content, DevelopmentKeywords) THEN DEVELOPMENT
        ELSE IF ContentMatches(content, FamilyKeywords) THEN FAMILY
        ELSE IF hour >= 0 /\ hour < SLEEP_END_HOUR THEN RELAX_BED
        ELSE ROUTINE

\* categorizeWithKeywords given the whole array, the synthetic entry included.
categorizeWithKeywords_all(entries) ==
    [i \in DOMAIN entries |->
        [entries[i] EXCEPT
            !.category = getCategoryByKeyword(entries[i].content, entries[i].start)]]

\* categorizeWithKeywords(getUserEntries(entries)): the filtered array holds
\* the entry objects of entries themselves, so the entries with id # 0 change.
categorizeWithKeywords(entries) ==
    [i \in DOMAIN entries |->
        IF entries[i].id # 0
        THEN [entries[i] EXCEPT
                 !.category = getCategoryByKeyword(entries[i].content, entries[i].start)]
        ELSE entries[i]]

\* callGeminiApi once the HTTP response is in.  A response is
\* [ok, candidates, text]: response.ok, whether data.candidates[0] is there,
\* and the text of its first part.
callGeminiApi(response) ==
    IF ~response.ok THEN [threw |-> TRUE, text |-> response.text]
    ELSE IF ~response.candidates THEN [threw |-> TRUE, text |-> response.text]
    ELSE [threw |-> FALSE, text |-> response.text]

\* categorizeWithAI applying the categories before it validates the length.
categorizeWithAI_partial(entries, response) ==
    LET users == getUserEntries(entries)
        call == callGeminiApi(response)
        categories == call.text.categories
        index(i) == Cardinality({j \in UserPositions(entries) : j <= i})
    IN  IF call.threw \/ call.text.json = "invalid"
        THEN [ok |-> FALSE, entries |-> entries]
        ELSE [ok |-> call.text.json = "array" /\ Len(categories) = Len(users),
              entries |-> [i \in DOMAIN entries |->
                  IF entries[i].id # 0 /\ call.text.json = "array"
                                       /\ index(i) <= Len(categories)
                  THEN [entries[i] EXCEPT !.category = categories[index(i)]]
                  ELSE entries[i]]]

\* categorizeWithAI(getUserEntries(entries)) once the response is in: ok
\* tells whether it returned normally, entries is the array afterwards.
\* The text of a classification response is [json, categories]: what
\* JSON.parse makes of the cleaned text ("invalid" when it throws, "object"
\* for a value that is no array, "array") and the elements of the array.
categorizeWithAI(entries, response) ==
    LET users == getUserEntries(entries)
        call == callGeminiApi(response)
        categories == call.text.categories
        \* the index of entries[i] in the filtered array
        index(i) == Cardinality({j \in UserPositions(entries) : j <= i})
    IN  IF call.threw \/ call.text.json = "invalid"
        THEN [ok |-> FALSE, entries |-> entries]
        ELSE IF call.text.json # "array" \/ Len(categories) # Len(users)
        THEN [ok |-> FALSE, entries |-> entries]
        ELSE [ok |-> TRUE,
              entries |-> [i \in DOMAIN entries |->
                  IF entries[i].id # 0
                  THEN [entries[i] EXCEPT !.category = categories[index(i)]]
                  ELSE entries[i]]]

\* generateAIAdvice once the response is in: the text, or the error rethrown.
generateAIAdvice(response) == callGeminiApi(response)

\* The lines generateAIAdvice puts into its prompt, one per entry.
AdviceContext(entries) ==
    [i \in DOMAIN entries |->
        [start |-> entries[i].start, end |-> entries[i].end,
         category |-> entries[i].category, content |-> entries[i].content,
         immersion |-> entries[i].immersion]]

\* ------------------------------------------------------------- analyzer.js

\* The names an object literal inherits from Object.prototype, among the
\* values a category can take: stats[name] is a function before any
\* assignment, and Object.entries never lists it.
ObjectPrototypeKeys == {"constructor"}

\* A number as the value of a property.  The other values are texts: the
\* source text of the inherited function with the durations appended to it.
Num(n) == [text |-> FALSE, n |-> n, appended |-> <<>>]

\* if (!stats[c]) { stats[c] = 0; }  stats[c] += duration;
AddDuration(stats, c, duration) ==
    LET own == c \in DOMAIN stats
        current == IF own /\ (stats[c].text \/ stats[c].n # 0) THEN stats[c]
                   ELSE IF ~own /\ c \in ObjectPrototypeKeys
                   THEN [text |-> TRUE, n |-> 0, appended |-> <<>>]
                   ELSE Num(0)
        sum == IF current.text
               THEN [current EXCEPT !.appended = Append(@, duration)]
               ELSE Num(current.n + duration)
    IN  [k \in DOMAIN stats \cup {c} |-> IF k = c THEN sum ELSE stats[k]]

RECURSIVE CategoryStatsFrom(_, _, _)
CategoryStatsFrom(entries, i, stats) ==
    IF i > Len(entries) THEN stats
    ELSE CategoryStatsFrom(entries, i + 1,
             AddDuration(stats, entries[i].category, entries[i].duration))

calculateCategoryStats(entries) == CategoryStatsFrom(entries, 1, <<>>)

RECURSIVE ImmersionDistFrom_clipped(_, _, _)
\* The loop of calculateImmersionDistribution counting a level above 5 as 5.
ImmersionDistFrom_clipped(entries, i, dist) ==
    IF i > Len(entries) THEN dist
    ELSE LET e == entries[i]
             level == IF e.immersion > 5 THEN 5 ELSE e.immersion
         IN  ImmersionDistFrom_clipped(entries, i + 1,
                 IF level >= 1
                 THEN [dist EXCEPT ![level] = @ + e.duration]
                 ELSE dist)

RECURSIVE ImmersionDistFrom(_, _, _)
ImmersionDistFrom(entries, i, dist) ==
    IF i > Len(entries) THEN dist
    ELSE LET e == entries[i]
         IN  ImmersionDistFrom(entries, i + 1,
                 IF e.immersion >= 1 /\ e.immersion <= 5
                 THEN [dist EXCEPT ![e.immersion] = @ + e.duration]
                 ELSE dist)

calculateImmersionDistribution(entries) ==
    ImmersionDistFrom(entries, 1, [level \in 1..5 |-> 0])

RECURSIVE TotalFrom(_, _, _)
TotalFrom(entries, i, total) ==
    IF i > Len(entries) THEN total
    ELSE TotalFrom(entries, i + 1, total + entries[i].duration)

calculateTotalTime(entries) == TotalFrom(entries, 1, 0)

ActiveEntries(entries) == SelectSeq(entries, LAMBDA e : e.category # RELAX_BED)

Abs(x) == IF x < 0 THEN -x ELSE x

RECURSIVE TransitionsFrom_strict(_, _, _)
\* The loop of identifyEnergyTransitions asking for more than the threshold.
TransitionsFrom_strict(activeEntries, i, transitions) ==
    IF i > Len(activeEntries) THEN transitions
    ELSE LET previous == activeEntries[i - 1]
             current == activeEntries[i]
             difference == current.immersion - previous.immersion
         IN  TransitionsFrom_strict(activeEntries, i + 1,
                 IF Abs(difference) > ENERGY_CHANGE
                 THEN Append(transitions,
                          [time |-> current.start,
                           type |-> IF difference > 0 THEN "increase" ELSE "decrease",
                           difference |-> difference,
                           from |-> [content |-> previous.content,
                                     immersion |-> previous.immersion],
                           to |-> [content |-> current.content,
                                   immersion |-> current.immersion]])
                 ELSE transitions)

RECURSIVE TransitionsFrom(_, _, _)
TransitionsFrom(activeEntries, i, transitions) ==
    IF i > Len(activeEntries) THEN transitions
    ELSE LET previous == activeEntries[i - 1]
             current == activeEntries[i]
             difference == current.immersion - previous.immersion
         IN  TransitionsFrom(activeEntries, i + 1,
                 IF Abs(difference) >= ENERGY_CHANGE
                 THEN Append(transitions,
                          [time |-> current.start,
                           type |-> IF difference > 0 THEN "increase" ELSE "decrease",
                           difference |-> difference,
                           from |-> [content |-> previous.content,
                                     immersion |-> previous.immersion],
                           to |-> [content |-> current.content,
                                   immersion |-> current.immersion]])
                 ELSE transitions)

\* identifyEnergyTransitions comparing all entries, the resting ones included.
identifyEnergyTransitions_unfiltered(entries) ==
    TransitionsFrom(entries, 2, <<>>)

identifyEnergyTransitions(entries) ==
    TransitionsFrom(ActiveEntries(entries), 2, <<>>)

\* For categories that name no inherited property (grouped[c].push throws
\* for one that does).
RECURSIVE GroupFrom(_, _, _)
GroupFrom(entries, i, grouped) ==
    IF i > Len(entries) THEN grouped
    ELSE LET c == entries[i].category
             before == IF c \in DOMAIN grouped THEN grouped[c] ELSE <<>>
         IN  GroupFrom(entries, i + 1,
                 [k \in DOMAIN grouped \cup {c} |->
                     IF k = c THEN Append(before, entries[i]) ELSE grouped[k]])

groupEntriesByCategory(entries) == GroupFrom(entries, 1, <<>>)

\* (x).toFixed(1) of x = num / den, in tenths; 0 / 0 is NaN.
toFixed1(num, den) ==
    IF den = 0 THEN [nan |-> TRUE, tenths |-> 0]
    ELSE [nan |-> FALSE, tenths |-> (20 * num + den) \div (2 * den)]

RECURSIVE ImmersionStatsFrom(_, _, _, _)
\* keys: the categories in the order their keys were created; stats: the sums.
ImmersionStatsFrom(entries, i, keys, stats) ==
    IF i > Len(entries) THEN [keys |-> keys, stats |-> stats]
    ELSE LET e == entries[i]
             c == e.category
             known == c \in DOMAIN stats
             before == IF known THEN stats[c]
                       ELSE [totalImmersion |-> 0, totalTime |-> 0]
         IN  IF c = RELAX_BED \/ e.immersion = 0
             THEN ImmersionStatsFrom(entries, i + 1, keys, stats)
             \* categoryStats[c] is the inherited function: the sums become
             \* properties of that function and categoryStats gets no key
             ELSE IF c \in ObjectPrototypeKeys
             THEN ImmersionStatsFrom(entries, i + 1, keys, stats)
             ELSE ImmersionStatsFrom(entries, i + 1,
                      IF known THEN keys ELSE Append(keys, c),
                      [k \in DOMAIN stats \cup {c} |->
                          IF k = c
                          THEN [totalImmersion |->
                                    before.totalImmersion + e.immersion * e.duration,
                                totalTime |-> before.totalTime + e.duration]
                          ELSE stats[k]])

\* b.averageImmersion - a.averageImmersion < 0: a sorts before b.  The
\* difference is NaN, which is not below 0, when either average is NaN.
AvgBefore(a, b) ==
    /\ ~a.averageImmersion.nan /\ ~b.averageImmersion.nan
    /\ b.averageImmersion.tenths - a.averageImmersion.tenths < 0

RECURSIVE InsertByAverage(_, _)
InsertByAverage(e, sorted) ==
    IF sorted = <<>> THEN <<e>>
    ELSE IF AvgBefore(e, Head(sorted))
         THEN <<e>> \o sorted
         ELSE <<Head(sorted)>> \o InsertByAverage(e, Tail(sorted))

RECURSIVE SortByAverage(_)
SortByAverage(analysis) ==
    IF analysis = <<>> THEN <<>>
    ELSE InsertByAverage(analysis[Len(analysis)],
                         SortByAverage(SubSeq(analysis, 1, Len(analysis) - 1)))

analyzeImmersionByCategory(entries) ==
    LET acc == ImmersionStatsFrom(entries, 1, <<>>, <<>>)
        analysis == [i \in DOMAIN acc.keys |->
            [category |-> acc.keys[i],
             averageImmersion |-> toFixed1(acc.stats[acc.keys[i]].totalImmersion,
                                           acc.stats[acc.keys[i]].totalTime),
             totalTime |-> acc.stats[acc.keys[i]].totalTime]]
    IN  SortByAverage(analysis)

\* The pairs <<p, a>>, a up to 1800, for which 100 * p / a ends in .5 and
\* the double (p / a) * 100 lies just below it: 23 / 40 * 100 is
\* 57.49999999999999.  For no pair does the double lie above the exact value
\* by enough to change the rounding.
DoubleBelowHalf ==
    { <<23, 40>>, <<46, 80>>, <<69, 120>>, <<92, 160>>, <<29, 200>>,
      <<57, 200>>, <<113, 200>>, <<115, 200>>, <<138, 240>>, <<161, 280>>,
      <<184, 320>>, <<207, 360>>, <<58, 400>>, <<114, 400>>, <<226, 400>>,
      <<230, 400>>, <<253, 440>>, <<276, 480>>, <<299, 520>>, <<322, 560>>,
      <<87, 600>>, <<171, 600>>, <<339, 600>>, <<345, 600>>, <<368, 640>>,
      <<391, 680>>, <<414, 720>>, <<437, 760>>, <<116, 800>>, <<228, 800>>,
      <<452, 800>>, <<460, 800>>, <<483, 840>>, <<506, 880>>, <<529, 920>>,
      <<552, 960>>, <<145, 1000>>, <<285, 1000>>, <<565, 1000>>,
      <<575, 1000>>, <<598, 1040>>, <<621, 1080>>, <<644, 1120>>,
      <<667, 1160>>, <<174, 1200>>, <<342, 1200>>, <<678, 1200>>,
      <<690, 1200>>, <<713, 1240>>, <<736, 1280>>, <<759, 1320>>,
      <<782, 1360>>, <<203, 1400>>, <<399, 1400>>, <<791, 1400>>,
      <<805, 1400>>, <<828, 1440>>, <<851, 1480>>, <<874, 1520>>,
      <<897, 1560>>, <<232, 1600>>, <<456, 1600>>, <<904, 1600>>,
      <<920, 1600>>, <<943, 1640>>, <<966, 1680>>, <<989, 1720>>,
      <<1012, 1760>>, <<261, 1800>>, <<513, 1800>>, <<1017, 1800>>,
      <<1035, 1800>> }

\* Math.round((p / a) * 100) for 0 <= p <= a, a > 0.
MathRoundPercent(p, a) ==
    IF <<p, a>> \in DoubleBelowHalf THEN (100 * p) \div a
    ELSE (200 * p + a) \div (2 * a)

RECURSIVE ProductivityFrom(_, _, _, _)
ProductivityFrom(entries, i, productiveHighImmersionTime, totalActiveTime) ==
    IF i > Len(entries)
    THEN [productiveHighImmersionTime |-> productiveHighImmersionTime,
          totalActiveTime |-> totalActiveTime]
    ELSE LET e == entries[i]
         IN  IF e.category = RELAX_BED
             THEN ProductivityFrom(entries, i + 1, productiveHighImmersionTime,
                                   totalActiveTime)
             ELSE ProductivityFrom(entries, i + 1,
                      IF e.category \in {WORK, DEVELOPMENT} /\ e.immersion >= 4
                      THEN productiveHighImmersionTime + e.duration
                      ELSE productiveHighImmersionTime,
                      totalActiveTime + e.duration)

calculateProductivityScore(entries) ==
    LET acc == ProductivityFrom(entries, 1, 0, 0)
    IN  IF acc.totalActiveTime = 0 THEN 0
        ELSE MathRoundPercent(acc.productiveHighImmersionTime, acc.totalActiveTime)

\* ------------------------------------------------------------ sample input

SP == Ch("sp")
DASH == Ch("dash")
GT == Ch("gt")
VMARK == Ch("v")
TILDE == Ch("tilde")
PIPE == Ch("pipe")
BAR == Ch("bar")

\* "- 09:00 ~ 10:00 yuedu" + 3 bars, "  - > xuexi", "- 10:00 ~ 11:30 kaihui" + 1 bar
DayLog ==
    << <<DASH, SP, Tm(9, 0), SP, TILDE, SP, Tm(10, 0), SP, Ch("yuedu"), SP, BAR, BAR, BAR>>,
       <<SP, SP, DASH, SP, GT, SP, Ch("xuexi")>>,
       <<DASH, SP, Tm(10, 0), SP, TILDE, SP, Tm(11, 30), SP, Ch("kaihui"), SP, BAR>> >>

\* "00:00~06:30 wucan||": starts at midnight, no gap to fill
NightLog ==
    << <<Tm(0, 0), TILDE, Tm(6, 30), SP, Ch("wucan"), PIPE, PIPE>> >>

\* no time-header line: a blank line, a thought, an action, an unrecognized line
NotesLog ==
    << <<>>, <<GT, SP, Ch("idea")>>, <<VMARK, SP, Ch("walk")>>, <<Ch("wucan")>> >>

\* The texts the analyses of the session are run on.
SampleLogs == {DayLog, NightLog, NotesLog}

\* What the classifier may put into its array: a label, or anything else
\* (ClassifyTexts adds the arrays of a name that object literals inherit).
OtherValue == "hobby"
AiValues == {WORK, RELAX_BED, OtherValue}

RECURSIVE SeqsOf(_, _)
\* The sequences of length n over S.
SeqsOf(S, n) ==
    IF n = 0 THEN {<<>>}
    ELSE {Append(q, x) : q \in SeqsOf(S, n - 1), x \in S}

JsonArray(q) == [json |-> "array", categories |-> q]

\* The texts a classification response for n entries may carry.
ClassifyTexts(n) ==
    {[json |-> "invalid", categories |-> <<>>], [json |-> "object", categories |-> <<>>]}
    \cup {JsonArray(q) : q \in SeqsOf(AiValues, n)}
    \cup {JsonArray([i \in 1..(n + 1) |-> WORK]), JsonArray([i \in 1..(n - 1) |-> WORK])}
    \cup {JsonArray([i \in 1..n |-> k]) : k \in ObjectPrototypeKeys}

\* The HTTP responses to a request whose text, when there is one, is in texts.
Responses(texts) ==
    {[ok |-> TRUE, candidates |-> TRUE, text |-> t] : t \in texts}
    \cup {[ok |-> o, candidates |-> c, text |-> CHOOSE t \in texts : TRUE] :
              o \in BOOLEAN, c \in {FALSE}}

\* The texts an advice response may carry.
AdviceTexts == {"", "tips"}

\* The columns a card is dropped on.
DropTargets == {WORK, ROUTINE, RELAX_BED}

\* The analysis invocations one behaviour may start.
MaxAnalyses == 2

\* The cards one behaviour may move to another column.
MaxDrops == 1

\* ----------------------------------------------------------------- main.js

VARIABLES
    appState,        \* [entries, thoughts, actions]: the AppState object
    analyzeBtn,      \* [disabled]: the analyze control
    statusMsg,       \* [text, type]: elements.statusMsg
    aiLessons,       \* [kind, text, by]: elements.aiLessonsContent, and the
                     \* invocation whose call wrote it
    resultsActive,   \* elements.resultsArea has class active
    dashboard,       \* what updateDashboard rendered last
    pc,              \* where the running handleAnalyzeLog stands
    apiKey,          \* the apiKey local of the running handleAnalyzeLog
    classifyResponse, \* the response categorizeWithAI has just received
    adviceCalls,     \* the invocations whose advice request is in flight
    adviceRequest,   \* the entry lines in the prompt of the advice request the
                     \* latest invocation has issued (none: the empty sequence)
    invocation,      \* the number of handleAnalyzeLog invocations so far
    drops,           \* the number of cards moved so far
    lastEvent,       \* the handler that ran last
    args,            \* the argument of the function under check
    result           \* what the function under check has returned

svars == <<appState, analyzeBtn, statusMsg, aiLessons, resultsActive, dashboard, pc,
           apiKey, classifyResponse, adviceCalls, adviceRequest, invocation, drops,
           lastEvent>>

fvars == <<args, result>>

vars == <<svars, fvars>>

entries == appState.entries

\* MESSAGES and the literals of main.js
ANALYZING == "AI analyzing ..."
COMPLETE == "complete"
KEYWORD_MODE == "keyword mode"
ANALYSIS_FAILED == "analysis failed"
AI_FAILED_HTML == "<p class=text-red-500>AI connection failed</p>"

\* showStatusMessage(message, type = 'info')
showStatusMessage(message, type) == [text |-> message, type |-> type]

NULL == "null"

\* renderAILessons(content) called on behalf of invocation n
renderAILessons(content, n) ==
    IF content = NULL THEN [kind |-> "loading", text |-> "", by |-> n]
    ELSE IF content = "" THEN [kind |-> "placeholder", text |-> "", by |-> n]
    ELSE [kind |-> "content", text |-> content, by |-> n]

\* The statistics updateDashboard computes from appState.getEntries() and
\* hands to the renderers.
updateDashboard(es) ==
    [rendered |-> TRUE,
     categoryStats |-> calculateCategoryStats(es),
     immersionDist |-> calculateImmersionDistribution(es),
     totalTime |-> calculateTotalTime(es),
     immersionAnalysis |-> analyzeImmersionByCategory(es),
     transitions |-> identifyEnergyTransitions(es),
     groupedEntries |-> groupEntriesByCategory(es)]

\* updateDashboard throws before it renders anything: groupEntriesByCategory
\* calls grouped[c].push, and grouped[c] is the inherited function, which
\* has no push, for a category that names an inherited property.
updateDashboardThrows(es) ==
    \E i \in DOMAIN es : es[i].category \in ObjectPrototypeKeys

NoDashboard ==
    [rendered |-> FALSE, categoryStats |-> <<>>,
     immersionDist |-> [level \in 1..5 |-> 0], totalTime |-> 0,
     immersionAnalysis |-> <<>>, transitions |-> <<>>, groupedEntries |-> <<>>]

\* The ids of the cards renderCategoryKanban put on the board: one column per
\* category of CATEGORY_ORDER, an entry of any other category on none.
KanbanIds ==
    UNION {{dashboard.groupedEntries[c][i].id : i \in DOMAIN dashboard.groupedEntries[c]} :
              c \in CATEGORIES \cap DOMAIN dashboard.groupedEntries}

\* getApiKey(): the value of the API key field, trimmed
KeyInputs == {"", " ", "AIza"}
getApiKey(value) == IF value = " " THEN "" ELSE value

NoResponse == [ok |-> FALSE, candidates |-> FALSE, text |-> JsonArray(<<>>)]

NoArgs == [fn |-> "none"]
NoResult == [calls |-> 0]

\* parseLogText(getLogInput()) for each text the input field may hold
ParsedLogs == [rawText \in SampleLogs |-> parseLogText(rawText)]

SessionInit ==
    /\ appState = EmptyParse
    /\ analyzeBtn = [disabled |-> FALSE]
    /\ statusMsg = showStatusMessage("", "info")
    /\ aiLessons = [kind |-> "initial", text |-> "", by |-> 0]
    /\ resultsActive = FALSE
    /\ dashboard = NoDashboard
    /\ pc = "idle"
    /\ apiKey = ""
    /\ classifyResponse = NoResponse
    /\ adviceCalls = {}
    /\ adviceRequest = <<>>
    /\ invocation = 0
    /\ drops = 0
    /\ lastEvent = "init"

Init == SessionInit /\ args = NoArgs /\ result = NoResult

\* Between the settling of categorizeWithAI's promise and the continuation
\* of handleAnalyzeLog only microtasks run: no event handler, no response.
InContinuation == pc \in {"classified", "classifyFailed"}

\* The analyze control is clicked: it fires only while it is enabled.
CanAnalyze ==
    /\ ~analyzeBtn.disabled
    /\ invocation < MaxAnalyses

\* handleAnalyzeLog, validateEntries throws: lines 146-158, 209-215
AnalyzeNoEntries(rawText, apiKeyInput) ==
    LET parsed == ParsedLogs[rawText]
    IN  /\ CanAnalyze
        /\ validateEntries(parsed.entries)
        /\ invocation' = invocation + 1
        /\ appState' = EmptyParse
        /\ statusMsg' = showStatusMessage(ANALYSIS_FAILED, "error")
        /\ analyzeBtn' = [disabled |-> FALSE]
        /\ adviceRequest' = <<>>
        /\ lastEvent' = "analyzeFailed"
        /\ UNCHANGED <<aiLessons, resultsActive, dashboard, pc, apiKey,
                       classifyResponse, adviceCalls, drops, fvars>>

\* The branch without a key starting generateAIAdviceAsync all the same.
AnalyzeKeywords_withAdvice(rawText, apiKeyInput) ==
    LET parsed == ParsedLogs[rawText]
        filled == addSleepPeriodIfMissing(parsed.entries)
        key == getApiKey(apiKeyInput)
        categorized == categorizeWithKeywords(filled)
    IN  /\ CanAnalyze
        /\ ~validateEntries(parsed.entries)
        /\ ~(key # "" /\ Len(getUserEntries(filled)) > 0)
        /\ invocation' = invocation + 1
        /\ appState' = [parsed EXCEPT !.entries = categorized]
        /\ statusMsg' = showStatusMessage(KEYWORD_MODE, "info")
        /\ aiLessons' = renderAILessons(NULL, invocation + 1)
        /\ adviceCalls' = adviceCalls \cup {invocation + 1}
        /\ dashboard' = updateDashboard(categorized)
        /\ resultsActive' = TRUE
        /\ analyzeBtn' = [disabled |-> FALSE]
        /\ apiKey' = key
        /\ adviceRequest' = AdviceContext(categorized)
        /\ lastEvent' = "analyzeKeywords"
        /\ UNCHANGED <<pc, classifyResponse, drops, fvars>>

\* handleAnalyzeLog, no key (or no user entry): lines 146-179, 196-208, 214
AnalyzeKeywords(rawText, apiKeyInput) ==
    LET parsed == ParsedLogs[rawText]
        filled == addSleepPeriodIfMissing(parsed.entries)
        key == getApiKey(apiKeyInput)
        categorized == categorizeWithKeywords(filled)
    IN  /\ CanAnalyze
        /\ ~validateEntries(parsed.entries)
        /\ ~(key # "" /\ Len(getUserEntries(filled)) > 0)
        /\ invocation' = invocation + 1
        /\ appState' = [parsed EXCEPT !.entries = categorized]
        /\ statusMsg' = showStatusMessage(KEYWORD_MODE, "info")
        /\ aiLessons' = renderAILessons("", invocation + 1)
        /\ dashboard' = updateDashboard(categorized)
        /\ resultsActive' = TRUE
        /\ analyzeBtn' = [disabled |-> FALSE]
        /\ apiKey' = key
        /\ adviceRequest' = <<>>
        /\ lastEvent' = "analyzeKeywords"
        /\ UNCHANGED <<pc, classifyResponse, adviceCalls, drops, fvars>>

\* handleAnalyzeLog up to its await without setAnalyzeButtonLoading(true).
AnalyzeRemote_noLoading(rawText, apiKeyInput) ==
    LET parsed == ParsedLogs[rawText]
        filled == addSleepPeriodIfMissing(parsed.entries)
        key == getApiKey(apiKeyInput)
    IN  /\ CanAnalyze
        /\ ~validateEntries(parsed.entries)
        /\ key # "" /\ Len(getUserEntries(filled)) > 0
        /\ invocation' = invocation + 1
        /\ appState' = [parsed EXCEPT !.entries = filled]
        /\ statusMsg' = showStatusMessage(ANALYZING, "info")
        /\ apiKey' = key
        /\ pc' = "classify"
        /\ adviceRequest' = <<>>
        /\ lastEvent' = "analyzeStart"
        /\ UNCHANGED <<analyzeBtn, aiLessons, resultsActive, dashboard,
                       classifyResponse, adviceCalls, drops, fvars>>

\* handleAnalyzeLog up to its await: lines 146-186
AnalyzeRemote(rawText, apiKeyInput) ==
    LET parsed == ParsedLogs[rawText]
        filled == addSleepPeriodIfMissing(parsed.entries)
        key == getApiKey(apiKeyInput)
    IN  /\ CanAnalyze
        /\ ~validateEntries(parsed.entries)
        /\ key # "" /\ Len(getUserEntries(filled)) > 0
        /\ invocation' = invocation + 1
        /\ appState' = [parsed EXCEPT !.entries = filled]
        /\ statusMsg' = showStatusMessage(ANALYZING, "info")
        /\ analyzeBtn' = [disabled |-> TRUE]
        /\ apiKey' = key
        /\ pc' = "classify"
        /\ adviceRequest' = <<>>
        /\ lastEvent' = "analyzeStart"
        /\ UNCHANGED <<aiLessons, resultsActive, dashboard, classifyResponse,
                       adviceCalls, drops, fvars>>

\* The classification response arrives: categorizeWithAI from its await on.
ClassifySettled(response) ==
    LET r == categorizeWithAI(entries, response)
    IN  /\ pc = "classify"
        /\ classifyResponse' = response
        /\ appState' = [appState EXCEPT !.entries = r.entries]
        /\ pc' = IF r.ok THEN "classified" ELSE "classifyFailed"
        /\ lastEvent' = "categorizeWithAI"
        /\ UNCHANGED <<analyzeBtn, statusMsg, aiLessons, resultsActive, dashboard,
                       apiKey, adviceCalls, adviceRequest, invocation, drops, fvars>>

\* The rest of handleAnalyzeLog once the await is over: the synchronous
\* start of generateAIAdviceAsync, updateDashboard, showResults, finally.
AnalyzeContinue(es, message, type, event) ==
    /\ appState' = [appState EXCEPT !.entries = es]
    /\ statusMsg' = showStatusMessage(message, type)
    /\ aiLessons' = renderAILessons(NULL, invocation)
    /\ adviceCalls' = adviceCalls \cup {invocation}
    /\ adviceRequest' = AdviceContext(es)
    /\ dashboard' = updateDashboard(es)
    /\ resultsActive' = TRUE
    /\ analyzeBtn' = [disabled |-> FALSE]
    /\ pc' = "idle"
    /\ classifyResponse' = NoResponse
    /\ lastEvent' = event
    /\ UNCHANGED <<apiKey, invocation, drops, fvars>>

\* handleAnalyzeLog from line 187: the await returned
AnalyzeComplete ==
    /\ pc = "classified"
    /\ ~updateDashboardThrows(entries)
    /\ AnalyzeContinue(entries, COMPLETE, "success", "analyzeComplete")

\* handleAnalyzeLog from line 187, updateDashboard throws: the advice call
\* is on its way, then lines 209-215
AnalyzeRenderFailed ==
    /\ pc = "classified"
    /\ updateDashboardThrows(entries)
    /\ statusMsg' = showStatusMessage(ANALYSIS_FAILED, "error")
    /\ aiLessons' = renderAILessons(NULL, invocation)
    /\ adviceCalls' = adviceCalls \cup {invocation}
    /\ adviceRequest' = AdviceContext(entries)
    /\ analyzeBtn' = [disabled |-> FALSE]
    /\ pc' = "idle"
    /\ classifyResponse' = NoResponse
    /\ lastEvent' = "analyzeRenderFailed"
    /\ UNCHANGED <<appState, dashboard, resultsActive, apiKey, invocation, drops,
                   fvars>>

\* The fallback path without the finally block: the control stays disabled.
AnalyzeFallback_noFinally ==
    /\ pc = "classifyFailed"
    /\ appState' = [appState EXCEPT !.entries = categorizeWithKeywords(entries)]
    /\ statusMsg' = showStatusMessage(KEYWORD_MODE, "info")
    /\ aiLessons' = renderAILessons(NULL, invocation)
    /\ adviceCalls' = adviceCalls \cup {invocation}
    /\ adviceRequest' = AdviceContext(categorizeWithKeywords(entries))
    /\ dashboard' = updateDashboard(categorizeWithKeywords(entries))
    /\ resultsActive' = TRUE
    /\ pc' = "idle"
    /\ classifyResponse' = NoResponse
    /\ lastEvent' = "analyzeFallback"
    /\ UNCHANGED <<analyzeBtn, apiKey, invocation, drops, fvars>>

\* The fallback path building the advice prompt before the keyword
\* categories are in the entries.
AnalyzeFallback_promptFirst ==
    /\ pc = "classifyFailed"
    /\ appState' = [appState EXCEPT !.entries = categorizeWithKeywords(entries)]
    /\ statusMsg' = showStatusMessage(KEYWORD_MODE, "info")
    /\ aiLessons' = renderAILessons(NULL, invocation)
    /\ adviceCalls' = adviceCalls \cup {invocation}
    /\ adviceRequest' = AdviceContext(entries)
    /\ dashboard' = updateDashboard(categorizeWithKeywords(entries))
    /\ resultsActive' = TRUE
    /\ analyzeBtn' = [disabled |-> FALSE]
    /\ pc' = "idle"
    /\ classifyResponse' = NoResponse
    /\ lastEvent' = "analyzeFallback"
    /\ UNCHANGED <<apiKey, invocation, drops, fvars>>

\* handleAnalyzeLog from line 188: the await threw
AnalyzeFallback ==
    /\ pc = "classifyFailed"
    /\ AnalyzeContinue(categorizeWithKeywords(entries), KEYWORD_MODE, "info",
                       "analyzeFallback")

\* generateAIAdviceAsync of invocation n, its await returned: line 226
AdviceResolved(n, response) ==
    /\ ~InContinuation
    /\ n \in adviceCalls
    /\ ~generateAIAdvice(response).threw
    /\ adviceCalls' = adviceCalls \ {n}
    /\ aiLessons' = renderAILessons(generateAIAdvice(response).text, n)
    /\ lastEvent' = "adviceResolved"
    /\ UNCHANGED <<appState, analyzeBtn, statusMsg, resultsActive, dashboard, pc,
                   apiKey, classifyResponse, adviceRequest, invocation, drops, fvars>>

\* generateAIAdviceAsync letting the failure reach the status line.
AdviceRejected_status(n, response) ==
    /\ ~InContinuation
    /\ n \in adviceCalls
    /\ generateAIAdvice(response).threw
    /\ adviceCalls' = adviceCalls \ {n}
    /\ aiLessons' = renderAILessons(AI_FAILED_HTML, n)
    /\ statusMsg' = showStatusMessage(ANALYSIS_FAILED, "error")
    /\ lastEvent' = "adviceRejected"
    /\ UNCHANGED <<appState, analyzeBtn, resultsActive, dashboard, pc,
                   apiKey, classifyResponse, adviceRequest, invocation, drops, fvars>>

\* generateAIAdviceAsync of invocation n, its await threw: lines 227-230
AdviceRejected(n, response) ==
    /\ ~InContinuation
    /\ n \in adviceCalls
    /\ generateAIAdvice(response).threw
    /\ adviceCalls' = adviceCalls \ {n}
    /\ aiLessons' = renderAILessons(AI_FAILED_HTML, n)
    /\ lastEvent' = "adviceRejected"
    /\ UNCHANGED <<appState, analyzeBtn, statusMsg, resultsActive, dashboard, pc,
                   apiKey, classifyResponse, adviceRequest, invocation, drops, fvars>>

\* What e.dataTransfer.getData('text/plain') gives the drop handler: the
\* decimal text of the id of the card dragged, or the empty text when the
\* thing dragged carries no text (a file, say).  n is what the text
\* converts to when == compares it with a number: Number('') is 0.
CardData(id) == [card |-> TRUE, n |-> id]
NoData == [card |-> FALSE, n |-> 0]

\* The things that can be dropped on a column of the board.
DropData ==
    {CardData(id) : id \in KanbanIds} \cup {d \in {NoData} : dashboard.rendered}

\* entries.find(e => e.id == entryId): the first position whose id equals
\* the text in the sense of ==, or 0.
FindById(es, entryId) ==
    LET at == {i \in DOMAIN es : es[i].id = entryId.n}
    IN  IF at = {} THEN 0 ELSE CHOOSE i \in at : \A j \in at : i <= j

\* Something is dropped on the column of newCategory.
handleKanbanDrop(entryId, newCategory) ==
    LET at == FindById(entries, entryId)
        moved == [entries EXCEPT ![at].category = newCategory]
    IN  /\ ~InContinuation
        /\ entryId \in DropData
        /\ drops < MaxDrops
        /\ IF at # 0 /\ entries[at].category # newCategory
           THEN /\ appState' = [appState EXCEPT !.entries = moved]
                /\ dashboard' = IF updateDashboardThrows(moved) THEN dashboard
                                 ELSE updateDashboard(moved)
                /\ drops' = drops + 1
                /\ lastEvent' = "kanbanDrop"
           ELSE UNCHANGED <<appState, dashboard, drops, lastEvent>>
        /\ UNCHANGED <<analyzeBtn, statusMsg, aiLessons, resultsActive, pc, apiKey,
                       classifyResponse, adviceCalls, adviceRequest, invocation, fvars>>

Next ==
    \/ \E rawText \in SampleLogs : \E value \in KeyInputs :
           AnalyzeNoEntries(rawText, value)
    \/ \E rawText \in SampleLogs : \E value \in KeyInputs :
           AnalyzeKeywords(rawText, value)
    \/ \E rawText \in SampleLogs : \E value \in KeyInputs :
           AnalyzeRemote(rawText, value)
    \/ \E response \in Responses(ClassifyTexts(Len(getUserEntries(entries)))) :
           ClassifySettled(response)
    \/ AnalyzeComplete
    \/ AnalyzeRenderFailed
    \/ AnalyzeFallback
    \/ \E n \in adviceCalls : \E response \in Responses(AdviceTexts) :
           AdviceResolved(n, response)
    \/ \E n \in adviceCalls : \E response \in Responses(AdviceTexts) :
           AdviceRejected(n, response)
    \/ \E entryId \in DropData : \E newCategory \in DropTargets :
           handleKanbanDrop(entryId, newCategory)

Spec == Init /\ [][Next]_vars

\* The classification response arrives: the steps of ClassifySettled, which
\* is enabled whenever an invocation waits, and no other step of Next.
Settling == pc = "classify" /\ pc' \in {"classified", "classifyFailed"}

\* The step that continues handleAnalyzeLog once its await is over, seen in
\* pc alone: AnalyzeComplete, AnalyzeRenderFailed or AnalyzeFallback, the
\* only steps there are in such a state, and one of them is always possible.
Continuation == InContinuation /\ pc' = "idle"

\* The session in which every classification request gets its response (or
\* its network error) and the continuation of the await, a microtask, runs.
FairSpec ==
    /\ Init /\ [][Next]_vars
    /\ WF_pc(Settling)
    /\ WF_pc(Continuation)

\* ------------------------------------------- calculateDuration on its own

\* The times of day "00:00" .. "23:59".
ValidTimes ==
    {<<hh, mm>> : hh \in 0..(MINUTES_PER_DAY \div MINUTES_PER_HOUR - 1),
                  mm \in 0..(MINUTES_PER_HOUR - 1)}

LastMinute == <<MINUTES_PER_DAY \div MINUTES_PER_HOUR - 1, MINUTES_PER_HOUR - 1>>

DurationInit ==
    /\ SessionInit
    /\ args \in {[fn |-> "calculateDuration", start |-> t] : t \in ValidTimes}
    /\ result = NoResult

\* calculateDuration(args.start, end) is called.
DurationCall(end) ==
    /\ result.calls = 0
    /\ result' = [calls |-> 1, end |-> end, value |-> calculateDuration(args.start, end)]
    /\ UNCHANGED <<svars, args>>

DurationNext ==
    \E end \in {args.start, Midnight, LastMinute} : DurationCall(end)

DurationSpec == DurationInit /\ [][DurationNext]_vars

\* ------------------------------------- addSleepPeriodIfMissing on its own

\* "00:00 ~ 06:30 wucan", "- 07:00 ~ 07:00 ba", "- 07:00 ~ 08:00 dushu" + bar,
\* "- 22:00~01:00 Meeting" + 2 bars, "> idea"
GapLines ==
    { <<Tm(0, 0), SP, TILDE, SP, Tm(6, 30), SP, Ch("wucan")>>,
      <<DASH, SP, Tm(7, 0), SP, TILDE, SP, Tm(7, 0), SP, Ch("ba")>>,
      <<DASH, SP, Tm(7, 0), SP, TILDE, SP, Tm(8, 0), SP, Ch("dushu"), SP, BAR>>,
      <<DASH, SP, Tm(22, 0), TILDE, Tm(1, 0), SP, Ch("Meeting"), BAR, BAR>>,
      <<GT, SP, Ch("idea")>> }

\* The lines of the longest text parsed.
MaxLines == 3

\* The applications of addSleepPeriodIfMissing in a row.
MaxApplications == 3

GapTexts == UNION {SeqsOf(GapLines, n) : n \in 0..MaxLines}

GapFillInit ==
    /\ SessionInit
    /\ args \in {[fn |-> "addSleepPeriodIfMissing", entries |-> parseLogText(t).entries] :
                    t \in GapTexts}
    /\ result = NoResult

\* addSleepPeriodIfMissing is applied to the array once more.
GapFillCall ==
    LET current == IF result.calls = 0 THEN args.entries ELSE result.value
        filled == addSleepPeriodIfMissing(current)
    IN  /\ result.calls < MaxApplications
        /\ result' = [calls |-> result.calls + 1,
                      once |-> IF result.calls = 0 THEN filled ELSE result.once,
                      value |-> filled]
        /\ UNCHANGED <<svars, args>>

GapFillNext == GapFillCall

GapFillSpec == GapFillInit /\ [][GapFillNext]_vars

\* -------------------------------------- categorizeWithKeywords on its own

\* The words of the contents classified: with a sleep keyword (one of them
\* inside a longer word), a work keyword, a development keyword, a family
\* keyword, and with none.
KeywordWords == {"Sleep", "snapshot", "Meeting", "slide", "yuedu", "ba", "wucan"}

\* The words of the longest content classified.
MaxWords == 2

KeywordContents ==
    UNION {SeqsOf({Ch(w) : w \in KeywordWords}, n) : n \in 1..MaxWords}

KeywordStarts == {<<0, 0>>, <<6, 59>>, <<7, 0>>, <<23, 0>>}

\* A user entry as parseTimeEntry builds it, with the category it had before.
KeywordEntry(content, start, category) ==
    [id |-> 1, start |-> start, end |-> start, content |-> content,
     immersion |-> 0, duration |-> calculateDuration(start, start),
     category |-> category]

KeywordInit ==
    /\ SessionInit
    /\ args \in {[fn |-> "categorizeWithKeywords",
                  entries |-> <<KeywordEntry(c, t, was)>>] :
                    c \in KeywordContents, t \in KeywordStarts,
                    was \in {ROUTINE, WORK, OtherValue}}
    /\ result = NoResult

\* categorizeWithKeywords is applied to the array once more.
KeywordCall ==
    LET current == IF result.calls = 0 THEN args.entries ELSE result.value
        categorized == categorizeWithKeywords(current)
    IN  /\ result.calls < MaxApplications
        /\ result' = [calls |-> result.calls + 1,
                      once |-> IF result.calls = 0 THEN categorized ELSE result.once,
                      value |-> categorized]
        /\ UNCHANGED <<svars, args>>

KeywordNext == KeywordCall

KeywordSpec == KeywordInit /\ [][KeywordNext]_vars

\* ------------------------------------------------- the analyzer on its own

\* "- 09:00 ~ 09:23 kaihui" + 4 bars, "- 09:23 ~ 09:40 wucan",
\* "- 07:00 ~ 07:00 ba|||", "- 10:00 ~ 11:00 yuedu" + 6 bars,
\* "00:00 ~ 06:30 wucan" + 5 bars
StatsLines ==
    { <<DASH, SP, Tm(9, 0), SP, TILDE, SP, Tm(9, 23), SP, Ch("kaihui"), SP,
        BAR, BAR, BAR, BAR>>,
      <<DASH, SP, Tm(9, 23), SP, TILDE, SP, Tm(9, 40), SP, Ch("wucan")>>,
      <<DASH, SP, Tm(7, 0), SP, TILDE, SP, Tm(7, 0), SP, Ch("ba"), PIPE, PIPE, PIPE>>,
      <<DASH, SP, Tm(10, 0), SP, TILDE, SP, Tm(11, 0), SP, Ch("yuedu"), SP,
        BAR, BAR, BAR, BAR, BAR, BAR>>,
      <<Tm(0, 0), SP, TILDE, SP, Tm(6, 30), SP, Ch("wucan"), SP,
        BAR, BAR, BAR, BAR, BAR>> }

\* The entry lines of the longest text analyzed.
MaxEntries == 2

\* What the classifier gave the entries: a label, or the name of an
\* inherited property.
StatsCategories == {WORK, ROUTINE, "constructor"}

\* The entries of appState once text is parsed, gap-filled and classified
\* with the array q.
ClassifiedEntries(text, q) ==
    categorizeWithAI(addSleepPeriodIfMissing(parseLogText(text).entries),
                     [ok |-> TRUE, candidates |-> TRUE, text |-> JsonArray(q)]).entries

AnalyzerInit ==
    /\ SessionInit
    /\ args \in UNION {
           {[fn |-> "updateDashboard", entries |-> ClassifiedEntries(text, q)] :
                q \in SeqsOf(StatsCategories, Len(parseLogText(text).entries))} :
           text \in UNION {SeqsOf(StatsLines, n) : n \in 0..MaxEntries}}
    /\ result = NoResult

\* What the functions of the analyzer return for es.
Analyzed(es) ==
    [calls |-> 1,
     categoryStats |-> calculateCategoryStats(es),
     totalTime |-> calculateTotalTime(es),
     immersionDist |-> calculateImmersionDistribution(es),
     immersionAnalysis |-> analyzeImmersionByCategory(es),
     transitions |-> identifyEnergyTransitions(es),
     productivityScore |-> calculateProductivityScore(es)]

\* The analyzer runs on the classified entries.
AnalyzerCall ==
    /\ result.calls = 0
    /\ result' = Analyzed(args.entries)
    /\ UNCHANGED <<svars, args>>

\* The card of the entry at position i is dropped on another column, and
\* the analyzer runs again.
AnalyzerReassign(i, newCategory) ==
    /\ result.calls = 1
    /\ i \in DOMAIN args.entries
    /\ args.entries[i].category \in CATEGORIES
    /\ args.entries[i].category # newCategory
    /\ args' = [args EXCEPT !.entries[i].category = newCategory]
    /\ result' = Analyzed(args'.entries)
    /\ UNCHANGED svars

AnalyzerNext ==
    \/ AnalyzerCall
    \/ \E i \in 1..(MaxEntries + 1), newCategory \in DropTargets :
           AnalyzerReassign(i, newCategory)

AnalyzerSpec == AnalyzerInit /\ [][AnalyzerNext]_vars

\* ------------------------------------------------- parseLogText on its own

\* "- 09:00 ~ 10:00 yuedu" + 3 bars + "|||", "09:00~10:00 a | b ||",
\* "> 09:00 ~ 10:00 idea", "- v 10:00 ~ 11:00 walk", "wucan", "  ",
\* " x 11:00 ~ 12:00"
ParseLines ==
    { <<DASH, SP, Tm(9, 0), SP, TILDE, SP, Tm(10, 0), SP, Ch("yuedu"), SP,
        BAR, BAR, BAR, PIPE, PIPE, PIPE>>,
      <<Tm(9, 0), TILDE, Tm(10, 0), SP, Ch("a"), SP, PIPE, SP, Ch("b"), SP, PIPE, PIPE>>,
      <<GT, SP, Tm(9, 0), SP, TILDE, SP, Tm(10, 0), SP, Ch("idea")>>,
      <<DASH, SP, VMARK, SP, Tm(10, 0), SP, TILDE, SP, Tm(11, 0), SP, Ch("walk")>>,
      <<Ch("wucan")>>,
      <<SP, SP>>,
      <<SP, Ch("x"), SP, Tm(11, 0), SP, TILDE, SP, Tm(12, 0)>> }

ParseInit ==
    /\ SessionInit
    /\ args \in {[fn |-> "parseLogText", rawText |-> t] :
                    t \in UNION {SeqsOf(ParseLines, n) : n \in 0..MaxLines}}
    /\ result = NoResult

\* parseLogText(rawText) is called.
ParseCall ==
    /\ result.calls = 0
    /\ result' = [calls |-> 1, value |-> parseLogText(args.rawText)]
    /\ UNCHANGED <<svars, args>>

ParseNext == ParseCall

ParseSpec == ParseInit /\ [][ParseNext]_vars

\* ------------------------------------------------------------------ claims

\* The advice state a viewer reads off elements.aiLessonsContent.
AdviceState ==
    CASE aiLessons.kind = "loading" -> "Pending"
      [] aiLessons.kind = "content" /\ aiLessons.text = AI_FAILED_HTML -> "Failed"
      [] aiLessons.kind = "content" /\ aiLessons.text # AI_FAILED_HTML -> "Ready"
      [] OTHER -> "NotStarted"

\* C1: in every state of the session, every entry's category is one of the
\* six labels of CATEGORIES.
C1_CategoryInFixedSet ==
    \A i \in DOMAIN entries : entries[i].category \in CATEGORIES

\* C2: no statistic is computed over the session's entries while their
\* classification is still awaited: no handler recomputes the dashboard
\* between the classification request and its response.
C2_NoStatisticsBeforeClassification ==
    ~(pc = "classify" /\ lastEvent = "kanbanDrop")

\* Whether the classification call that received response for es fails:
\* a bad status, a malformed envelope, an unparsable body, a value that is
\* no array, an array of another length than the entries sent.
ClassificationFails(response, es) ==
    \/ ~response.ok
    \/ ~response.candidates
    \/ response.text.json # "array"
    \/ Len(response.text.categories) # Len(getUserEntries(es))

\* C3: remote classification is all-or-nothing.  A call that fails leaves
\* every entry as it was; a call that succeeds gives the i-th entry sent
\* the i-th element of the response and changes nothing else.
C3_AllOrNothing ==
    [][pc = "classify" /\ pc' # "classify" =>
          IF ClassificationFails(classifyResponse', entries)
          THEN pc' = "classifyFailed" /\ entries' = entries
          ELSE /\ pc' = "classified"
               /\ Len(entries') = Len(entries)
               /\ \A i \in DOMAIN entries :
                      entries[i].id = 0 => entries'[i] = entries[i]
               /\ \A k \in DOMAIN getUserEntries(entries) :
                      getUserEntries(entries')[k] =
                          [getUserEntries(entries)[k] EXCEPT
                              !.category = classifyResponse'.text.categories[k]]]_vars

\* C3 witness: a call failed on an array of the wrong length, after another
\* had succeeded.
C3_Witness ==
    /\ pc = "classifyFailed"
    /\ classifyResponse.ok /\ classifyResponse.candidates
    /\ classifyResponse.text.json = "array"
    /\ Len(classifyResponse.text.categories) = Len(getUserEntries(entries)) + 1
    /\ invocation = 2

\* C4: a failed classification is caught inside the analysis: the next step
\* applies the keyword fallback to exactly the entries with id # 0, shows the
\* fallback-mode status, computes the statistics, renders the dashboard and
\* ends the invocation, not in the error state.
C4_FallbackRecovers ==
    [][pc = "classifyFailed" =>
          /\ lastEvent' = "analyzeFallback"
          /\ pc' = "idle"
          /\ Len(entries') = Len(entries)
          /\ \A i \in DOMAIN entries :
                 entries'[i] =
                     IF entries[i].id # 0
                     THEN [entries[i] EXCEPT !.category =
                              getCategoryByKeyword(entries[i].content, entries[i].start)]
                     ELSE entries[i]
          /\ statusMsg' = [text |-> KEYWORD_MODE, type |-> "info"]
          /\ dashboard' = updateDashboard(entries')
          /\ resultsActive'
          /\ ~analyzeBtn'.disabled]_vars

\* C4 witness: the fallback has run after a failed call, on entries of which
\* the synthetic one had been moved to another column during the await.
C4_Witness ==
    /\ lastEvent = "analyzeFallback"
    /\ \E i \in DOMAIN entries : entries[i].id = 0 /\ entries[i].category # RELAX_BED
    /\ \E i \in DOMAIN entries : entries[i].id # 0 /\ entries[i].category # ROUTINE

\* C5: once a later invocation has written the advice area, no call of an
\* earlier invocation writes it again.
C5_NoStaleAdvice ==
    [][aiLessons'.by >= aiLessons.by]_vars

AnalysisEvents ==
    {"analyzeKeywords", "analyzeStart", "categorizeWithAI", "analyzeComplete",
     "analyzeFallback"}

\* C6: an analysis whose text has no entry ends with the error message and
\* the control enabled again, having classified nothing, issued no call and
\* left the dashboard and the advice area alone; every other step of an
\* analysis works on at least one entry.
C6_NoValidEntriesAborts ==
    [][/\ lastEvent' \in AnalysisEvents => Len(entries') > 0
       /\ lastEvent' = "analyzeFailed" =>
              /\ entries' = <<>>
              /\ statusMsg' = [text |-> ANALYSIS_FAILED, type |-> "error"]
              /\ pc' = "idle" /\ pc = "idle"
              /\ ~analyzeBtn'.disabled
              /\ UNCHANGED <<dashboard, aiLessons, adviceCalls, resultsActive>>]_vars

\* C6 witness: the analysis of a text without entries has aborted while the
\* dashboard of an earlier analysis is on display.
C6_Witness ==
    /\ lastEvent = "analyzeFailed"
    /\ dashboard.rendered
    /\ adviceCalls # {}

\* C7: a failed advice call moves the advice area to the Failed state and
\* changes nothing else: not the entries, not the status, not the dashboard,
\* not the running analysis.
C7_AdviceFailureIsolated ==
    [][lastEvent' = "adviceRejected" =>
          /\ aiLessons'.kind = "content" /\ aiLessons'.text = AI_FAILED_HTML
          /\ UNCHANGED <<appState, statusMsg, dashboard, resultsActive, analyzeBtn, pc>>]_vars

\* C7 witness: an advice call has failed while a later analysis awaits its
\* classification.
C7_Witness ==
    /\ lastEvent = "adviceRejected"
    /\ AdviceState = "Failed"
    /\ pc = "classify"

\* C8: the advice area is Pending from the request until that request
\* resolves, then Ready for every returned text or Failed on an error, and
\* NotStarted only when no request was issued.
C8_AdviceLifecycle ==
    [][/\ lastEvent' \in {"analyzeComplete", "analyzeFallback"} =>
              AdviceState' = "Pending" /\ dashboard'.rendered
       /\ (/\ AdviceState = "Pending" /\ aiLessons.by = invocation
           /\ invocation' = invocation /\ invocation \in adviceCalls') =>
              AdviceState' = "Pending"
       /\ lastEvent' = "adviceResolved" => AdviceState' = "Ready"
       /\ lastEvent' = "adviceRejected" => AdviceState' = "Failed"]_vars

\* The minutes since midnight of the time "hh:mm".
MinuteOfDay(t) == 60 * t[1] + t[2]

DurationFormula(start, end, d) ==
    /\ d = (MinuteOfDay(end) - MinuteOfDay(start) + 1440) % 1440
    /\ d \in 0..1439
    /\ start = end => d = 0
    /\ MinuteOfDay(end) < MinuteOfDay(start) =>
           d = (1440 - MinuteOfDay(start)) + MinuteOfDay(end)

\* C9: for all start and end in 00:00..23:59, calculateDuration(start, end)
\* is (end - start + 1440) mod 1440 and lies in 0..1439: 0 for equal times,
\* the length across midnight when end is before start.
C9_DurationModulo ==
    /\ result.calls = 0 =>
           \A end \in ValidTimes :
               DurationFormula(args.start, end, calculateDuration(args.start, end))
    /\ result.calls = 1 => DurationFormula(args.start, result.end, result.value)

\* C9 witness: a duration across midnight has been computed.
C9_Witness ==
    /\ result.calls = 1
    /\ MinuteOfDay(result.end) < MinuteOfDay(args.start)
    /\ result.value = 1

IdZero(es) == {i \in DOMAIN es : es[i].id = 0}

\* C10: applying addSleepPeriodIfMissing again gives what one application
\* gave; at most one entry ever has id 0; no entry is added when an entry
\* (the first one, once sorted) starts at 00:00.
C10_GapFillIdempotent ==
    result.calls >= 1 =>
        /\ result.value = result.once
        /\ Cardinality(IdZero(result.value)) <= 1
        /\ (\E i \in DOMAIN args.entries : args.entries[i].start = Midnight) =>
               /\ Len(result.value) = Len(args.entries)
               /\ IdZero(result.value) = {}

\* C10 witness: the function has been applied twice or more to entries that
\* were out of order and did not start at midnight.
C10_Witness ==
    /\ result.calls >= 2
    /\ IdZero(result.value) = {1}
    /\ Len(args.entries) >= 2
    /\ ~StartLeq(args.entries[1], args.entries[2])

Range(q) == {q[i] : i \in DOMAIN q}

\* The smallest element of a non-empty set of numbers.
Least(S) == CHOOSE x \in S : \A y \in S : x <= y

\* out is what gap-filling has to make of the parsed entries given.
GapFilled(given, out) ==
    IF given = <<>> THEN out = <<>>
    ELSE LET earliest == Least({MinuteOfDay(given[i].start) : i \in DOMAIN given})
             users == IF earliest = 0 THEN out ELSE Tail(out)
         IN  /\ \A i \in 1..(Len(out) - 1) :
                    MinuteOfDay(out[i].start) <= MinuteOfDay(out[i + 1].start)
             /\ Len(users) = Len(given) /\ Range(users) = Range(given)
             /\ earliest # 0 =>
                    /\ Len(out) = Len(given) + 1
                    /\ out[1].id = 0 /\ out[1].start = <<0, 0>>
                    /\ MinuteOfDay(out[1].end) = earliest
                    /\ out[1].end = out[2].start
                    /\ out[1].immersion = 0 /\ out[1].category = RELAX_BED
                    /\ out[1].duration = earliest

\* C11: gap-filling returns the entries in ascending order of start; when
\* the earliest start is not 00:00 they follow one synthetic entry (id 0,
\* 00:00 to the earliest start, immersion 0, resting, that many minutes);
\* otherwise they are all there is; no entries stay no entries.
C11_GapFillShape ==
    result.calls >= 1 => GapFilled(args.entries, result.once)

\* C11 witness: entries that were out of order have been gap-filled with a
\* synthetic entry of seven hours.
C11_Witness ==
    /\ result.calls = 1
    /\ Len(args.entries) >= 2
    /\ MinuteOfDay(args.entries[1].start) > MinuteOfDay(args.entries[2].start)
    /\ result.once[1].id = 0
    /\ result.once[1].duration = 420

\* The position in es of the k-th entry whose id is not 0.
UserPosition(es, k) ==
    CHOOSE i \in DOMAIN es :
        es[i].id # 0 /\ Cardinality({j \in 1..i : es[j].id # 0}) = k

\* users is es without the entries of id 0, in the order of es.
IsUserEntriesOf(users, es) ==
    /\ Len(users) = Cardinality({i \in DOMAIN es : es[i].id # 0})
    /\ \A k \in DOMAIN users : users[k] = es[UserPosition(es, k)]

ClassificationEnds == {"analyzeComplete", "analyzeFallback", "analyzeKeywords"}

\* C12: getUserEntries gives exactly the entries of id # 0, in order; no
\* classification step, remote or local, changes the synthetic sleep entry;
\* and that entry is resting when the classification of an analysis completes.
C12_SyntheticEntryKept ==
    [][/\ IsUserEntriesOf(getUserEntries(entries'), entries')
       /\ lastEvent' \in {"categorizeWithAI", "analyzeFallback"} =>
              /\ Len(entries') = Len(entries)
              /\ \A i \in DOMAIN entries : entries[i].id = 0 => entries'[i] = entries[i]
       /\ lastEvent' \in ClassificationEnds =>
              \A i \in DOMAIN entries' :
                  entries'[i].id = 0 => entries'[i].category = RELAX_BED]_vars

\* The decision list of the fallback classifier: the category of the first
\* rule that applies to a content and a start time.
FirstRule(content, start) ==
    LET rules == << [hit |-> ContentMatches(content, RestKeywords), is |-> RELAX_BED],
                    [hit |-> ContentMatches(content, WorkKeywords), is |-> WORK],
                    [hit |-> ContentMatches(content, DevelopmentKeywords),
                     is |-> DEVELOPMENT],
                    [hit |-> ContentMatches(content, FamilyKeywords), is |-> FAMILY],
                    [hit |-> start[1] \in 0..6, is |-> RELAX_BED],
                    [hit |-> TRUE, is |-> ROUTINE] >>
    IN  rules[Least({i \in DOMAIN rules : rules[i].hit})].is

\* C13: the fallback classifier gives every entry the category of the first
\* rule that applies (sleep, work, development, family keyword, start hour
\* before 7, routine), whatever its category was, changes nothing else, and
\* changes nothing when applied again.
C13_KeywordDecisionList ==
    result.calls >= 1 =>
        /\ Len(result.once) = Len(args.entries)
        /\ \A i \in DOMAIN args.entries :
               /\ result.once[i] =
                      [args.entries[i] EXCEPT
                          !.category = FirstRule(args.entries[i].content,
                                                 args.entries[i].start)]
               /\ result.once[i].category \in CATEGORIES
        /\ result.value = result.once

\* C13 witness: a content with a work keyword and then a sleep keyword,
\* starting in the evening and of a category outside the set before, has
\* been classified twice and is resting.
C13_Witness ==
    /\ result.calls = 2
    /\ args.entries[1].content = <<Ch("Meeting"), Ch("snapshot")>>
    /\ args.entries[1].start = <<23, 0>>
    /\ args.entries[1].category = OtherValue
    /\ result.value[1].category = RELAX_BED

RECURSIVE SumOf(_, _)
\* The sum of amount[x] over the elements x of the finite set S.
SumOf(S, amount) ==
    IF S = {} THEN 0
    ELSE LET x == CHOOSE y \in S : TRUE
         IN  amount[x] + SumOf(S \ {x}, amount)

\* The sum of the durations of the entries of es that satisfy Keep.
Minutes(es, Keep(_)) ==
    SumOf({i \in DOMAIN es : Keep(es[i])}, [i \in DOMAIN es |-> es[i].duration])

AnyEntry(e) == TRUE

\* C14: the values of categoryStats are numbers whose sum is totalTime, the
\* sum of the durations of all entries, also after cards have been moved.
C14_StatsSumToTotal ==
    result.calls = 1 =>
        LET stats == result.categoryStats
            value == [k \in DOMAIN stats |-> stats[k].n]
        IN  /\ result.totalTime = Minutes(args.entries, AnyEntry)
            /\ \A k \in DOMAIN stats : ~stats[k].text
            /\ SumOf(DOMAIN stats, value) = result.totalTime

\* C15: immersionByCategory has no record for the resting category and no
\* record with an undefined average: a category is in the result only when
\* its entries of immersion above 0 last more than 0 minutes in all.
C15_NoUndefinedAverage ==
    result.calls = 1 =>
        \A k \in DOMAIN result.immersionAnalysis :
            LET record == result.immersionAnalysis[k]
                Qualifies(e) == e.category = record.category /\ e.immersion > 0
            IN  /\ record.category # RELAX_BED
                /\ ~record.averageImmersion.nan
                /\ Minutes(args.entries, Qualifies) > 0

NotResting(e) == e.category # RELAX_BED

\* The number of non-resting entries of es.
ActiveCount(es) == Cardinality({i \in DOMAIN es : NotResting(es[i])})

\* C16 as stated: energyTransitions returns fewer records than there are
\* non-resting entries.
C16_FewerThanActive ==
    result.calls = 1 => Len(result.transitions) < ActiveCount(args.entries)

\* C16: energyTransitions returns no record when no entry is non-resting, and
\* fewer records than there are non-resting entries otherwise.
C16_FewerThanActiveIfAny ==
    result.calls = 1 =>
        IF ActiveCount(args.entries) = 0 THEN result.transitions = <<>>
        ELSE Len(result.transitions) < ActiveCount(args.entries)

\* C16 witness: every non-resting entry but the first has a transition.
C16_Witness ==
    /\ result.calls = 1
    /\ ActiveCount(args.entries) = 2
    /\ Len(result.transitions) = 1
    /\ \E i \in DOMAIN args.entries : ~NotResting(args.entries[i])

ProductiveAtFour(e) ==
    NotResting(e) /\ e.category \in {WORK, DEVELOPMENT} /\ e.immersion >= 4

\* round(100 * p / a), halves rounded up, for a > 0.
RoundedPercent(p, a) == (200 * p + a) \div (2 * a)

\* C17: productivityScore is round(100 * P / A), an integer in 0..100, for A
\* the minutes of the non-resting entries and P those of them in work or
\* development at immersion 4 or more; it is 0 when A = 0 and 100 when P = A.
C17_ProductivityScore ==
    result.calls = 1 =>
        LET active == Minutes(args.entries, NotResting)
            productive == Minutes(args.entries, ProductiveAtFour)
        IN  /\ result.productivityScore \in 0..100
            /\ active = 0 => result.productivityScore = 0
            /\ active > 0 =>
                   result.productivityScore = RoundedPercent(productive, active)
            /\ (active > 0 /\ productive = active) => result.productivityScore = 100

\* C18: immersionDistribution gives each level 1..5 the minutes of the
\* entries of exactly that immersion, of any category; an entry of immersion
\* 0 or above 5 counts for no level.
C18_ImmersionDistribution ==
    result.calls = 1 =>
        /\ DOMAIN result.immersionDist = 1..5
        /\ \A level \in 1..5 :
               LET AtLevel(e) == e.immersion = level
               IN  result.immersionDist[level] = Minutes(args.entries, AtLevel)

\* C18 witness: the distribution of a day with an entry of immersion 6, one
\* of immersion 4 and a resting one of immersion 0, all longer than 0 minutes.
C18_Witness ==
    /\ result.calls = 1
    /\ \E i \in DOMAIN args.entries :
           args.entries[i].immersion = 6 /\ args.entries[i].duration > 0
    /\ \E i \in DOMAIN args.entries :
           /\ args.entries[i].immersion = 0 /\ args.entries[i].duration > 0
           /\ args.entries[i].category = RELAX_BED
    /\ result.immersionDist[5] = 0
    /\ result.immersionDist[4] = 23

\* The text of one line "- start ~ end content bars" per entry, the bars
\* being as many bar glyphs as the immersion.
Rebuild(es) ==
    [i \in DOMAIN es |->
        <<DASH, SP, Tm(es[i].start[1], es[i].start[2]), SP, TILDE, SP,
          Tm(es[i].end[1], es[i].end[2]), SP>>
        \o es[i].content \o <<SP>> \o [k \in 1..es[i].immersion |-> BAR]]

\* The {start, end, content, immersion} tuples of entries.
Tuples(es) ==
    [i \in DOMAIN es |->
        [start |-> es[i].start, end |-> es[i].end, content |-> es[i].content,
         immersion |-> es[i].immersion]]

\* C19: parsing the text rebuilt from parsed entries, one line
\* "- start ~ end content bars" each, gives the same tuples in the same order.
C19_ParseRoundTrip ==
    result.calls = 1 =>
        Tuples(parseLogText(Rebuild(result.value.entries)).entries)
            = Tuples(result.value.entries)

\* What parse has to make of a line: "thought", "action", "entry" or "none".
KindOf(line) ==
    LET t == trim(line)
    IN  IF t = <<>> THEN "none"
        ELSE IF MatchThought(t).matched THEN "thought"
        ELSE IF MatchAction(t).matched THEN "action"
        ELSE IF MatchTimeHeader(t).matched THEN "entry"
        ELSE "none"

\* The positions of the lines of a kind, in ascending order.
LinesOf(rawText, kind) ==
    LET at == {i \in DOMAIN rawText : KindOf(rawText[i]) = kind}
    IN  [k \in 1..Cardinality(at) |->
            CHOOSE i \in at : Cardinality({j \in at : j <= i}) = k]

\* C20: parse gives one item per non-blank line to the output of the first
\* kind the line matches (thought, then action, then time header), nothing
\* for a blank or unrecognized line, and keeps the order of the lines.
C20_ParseClassifiesLines ==
    result.calls >= 1 =>
        LET text == args.rawText
            out == result.value
            thoughtLines == LinesOf(text, "thought")
            actionLines == LinesOf(text, "action")
            entryLines == LinesOf(text, "entry")
        IN  /\ Len(out.thoughts) = Len(thoughtLines)
            /\ Len(out.actions) = Len(actionLines)
            /\ Len(out.entries) = Len(entryLines)
            /\ \A k \in DOMAIN thoughtLines :
                   out.thoughts[k] = trim(MatchThought(trim(text[thoughtLines[k]])).cap)
            /\ \A k \in DOMAIN actionLines :
                   out.actions[k] = trim(MatchAction(trim(text[actionLines[k]])).cap)
            /\ \A k \in DOMAIN entryLines :
                   /\ out.entries[k].id = entryLines[k]
                   /\ out.entries[k].start =
                          MatchTimeHeader(trim(text[entryLines[k]])).g1

\* C20 witness: of three lines, the thought with a time header in it went
\* to the thoughts, the third line is the only entry, and one gave nothing.
C20_Witness ==
    /\ result.calls = 1
    /\ Len(args.rawText) = 3
    /\ MatchTimeHeader(args.rawText[1]).matched
    /\ Len(result.value.thoughts) = 1
    /\ result.value.actions = <<>>
    /\ Len(result.value.entries) = 1
    /\ result.value.entries[1].id = 3

\* The k-th smallest element of a finite set of numbers.
Nth(S, k) == CHOOSE x \in S : Cardinality({y \in S : y <= x}) = k

\* The pairs <<p, c>> of positions of es that hold consecutive non-resting
\* entries whose immersions differ by 2 or more, in ascending order.
JumpPairs(es) ==
    LET active == {i \in DOMAIN es : NotResting(es[i])}
        jumps == {c \in active :
                     /\ \E p \in active : p < c
                     /\ LET p == Nth(active, Cardinality({y \in active : y < c}))
                        IN  \/ es[c].immersion - es[p].immersion >= 2
                            \/ es[p].immersion - es[c].immersion >= 2}
    IN  [k \in 1..Cardinality(jumps) |->
            LET c == Nth(jumps, k)
            IN  <<Nth(active, Cardinality({y \in active : y < c})), c>>]

\* C21: energyTransitions has, in order, one record for each pair of
\* consecutive non-resting entries whose immersions differ by 2 or more and
\* none for another pair: time is the start of the later entry, difference
\* is later minus earlier immersion, type is increase or decrease by its
\* sign, from and to carry content and immersion of the two entries.
C21_TransitionRecords ==
    result.calls = 1 =>
        LET es == args.entries
            pairs == JumpPairs(es)
        IN  /\ Len(result.transitions) = Len(pairs)
            /\ \A k \in DOMAIN pairs :
                   LET previous == es[pairs[k][1]]
                       current == es[pairs[k][2]]
                       record == result.transitions[k]
                   IN  /\ DOMAIN record = {"time", "type", "difference", "from", "to"}
                       /\ record.time = current.start
                       /\ record.difference = current.immersion - previous.immersion
                       /\ record.difference > 0 => record.type = "increase"
                       /\ record.difference < 0 => record.type = "decrease"
                       /\ record.from = [content |-> previous.content,
                                         immersion |-> previous.immersion]
                       /\ record.to = [content |-> current.content,
                                       immersion |-> current.immersion]

\* C21 witness: a resting entry lies between two non-resting entries whose
\* immersions differ by 3, and the one record is for that pair.
C21_Witness ==
    /\ result.calls = 1
    /\ Len(args.entries) = 3
    /\ NotResting(args.entries[1]) /\ ~NotResting(args.entries[2])
    /\ NotResting(args.entries[3])
    /\ Len(result.transitions) = 1
    /\ result.transitions[1].difference = 3
    /\ result.transitions[1].type = "increase"
    /\ result.transitions[1].time = args.entries[3].start

\* C22: every key of categoryStats that holds a number holds more than 0:
\* a category whose entries last 0 minutes in all has no key.
C22_NoZeroTotal ==
    result.calls = 1 =>
        \A k \in DOMAIN result.categoryStats :
            ~result.categoryStats[k].text => result.categoryStats[k].n > 0

\* What parseTimeEntry has to make of the trimmed time-header line t.
EntryOf(t, e) ==
    LET header == MatchTimeHeader(t)
        after == SubSeq(t, header.to + 1, Len(t))
        bars == {i \in DOMAIN after : after[i].k \in {"bar", "pipe"}}
        first == Least(bars)
        \* the positions of the run that starts at first
        run == {i \in bars : \A j \in first..i : j \in bars}
        kept == [i \in DOMAIN after |-> i \notin run]
        rest == IF bars = {} THEN after
                ELSE SelectSeq([i \in DOMAIN after |-> [g |-> after[i], keep |-> kept[i]]],
                               LAMBDA x : x.keep)
        body == IF bars = {} THEN after ELSE [i \in DOMAIN rest |-> rest[i].g]
    IN  /\ e.immersion = IF bars = {} THEN 0 ELSE Cardinality(run)
        /\ e.content = trim(body)
        /\ e.start = <<t[header.from].h, t[header.from].m>>
        /\ e.end = <<t[header.to].h, t[header.to].m>>
        /\ e.category = ROUTINE

IdsOf(es) == [i \in DOMAIN es |-> es[i].id]

\* es holds, apart from an entry of id 0, one entry for each time-header
\* line of rawText, its id the 1-based position of that line.
IdsArePositionsIn(es, rawText) ==
    LET entryLines == LinesOf(rawText, "entry")
    IN  /\ Cardinality({i \in DOMAIN es : es[i].id # 0}) = Len(entryLines)
        /\ \A i \in DOMAIN es :
               es[i].id # 0 =>
                   /\ es[i].id \in Range(entryLines)
                   /\ EntryOf(trim(rawText[es[i].id]), [es[i] EXCEPT !.category = ROUTINE])

\* C24: every entry made from a line has for id the 1-based position of
\* that line among all lines of the text, so a positive one and another one
\* than every other entry; id 0 is that of the synthetic sleep entry alone;
\* and no step after parsing (gap-filling, classification, a drop, an advice
\* response) changes the id of an entry.
C24_EntryIds ==
    [][/\ \A i, j \in DOMAIN entries' :
              /\ entries'[i].id >= 0
              /\ i # j => entries'[i].id # entries'[j].id
              /\ entries'[i].id = 0 =>
                     i = 1 /\ entries'[i].content = SleepContent
       /\ lastEvent' \in {"analyzeKeywords", "analyzeStart"} /\ invocation' # invocation =>
              \E rawText \in SampleLogs : IdsArePositionsIn(entries', rawText)
       /\ invocation' = invocation => IdsOf(entries') = IdsOf(entries)]_vars

\* C24 witness: a card has been moved in the second analysis of the text
\* whose entries come from its first and third line.
C24_Witness ==
    /\ lastEvent = "kanbanDrop"
    /\ invocation = 2
    /\ IdsOf(entries) = <<0, 1, 3>>
    /\ \E i \in DOMAIN entries : entries[i].category \notin {ROUTINE, RELAX_BED}

\* C25: when the last thing that happened is a drop that changed a category,
\* the category totals, the total time, the immersion distribution and
\* ranking, the energy transitions and the grouping on display are those
\* the analyzer functions give for the entries of the session as they are.
C25_RecomputedAfterDrop ==
    lastEvent = "kanbanDrop" =>
        /\ dashboard.rendered
        /\ dashboard.categoryStats = calculateCategoryStats(entries)
        /\ dashboard.totalTime = calculateTotalTime(entries)
        /\ dashboard.immersionDist = calculateImmersionDistribution(entries)
        /\ dashboard.immersionAnalysis = analyzeImmersionByCategory(entries)
        /\ dashboard.transitions = identifyEnergyTransitions(entries)
        /\ dashboard.groupedEntries = groupEntriesByCategory(entries)

\* An analysis has just finished: the dashboard is rendered and the results
\* are shown, or an error is reported; the control is enabled again.
AnalysisFinished ==
    /\ pc = "idle"
    /\ ~analyzeBtn.disabled
    /\ \/ /\ lastEvent \in {"analyzeComplete", "analyzeFallback"}
          /\ dashboard.rendered /\ resultsActive
          /\ dashboard = updateDashboard(entries)
       \/ /\ lastEvent = "analyzeRenderFailed"
          /\ statusMsg = [text |-> ANALYSIS_FAILED, type |-> "error"]

C27_NoKeyNoCall ==
    [][/\ (invocation' # invocation /\ entries' # <<>> /\ apiKey' = "") =>
              /\ lastEvent' = "analyzeKeywords"
              /\ pc' = "idle" /\ ~analyzeBtn'.disabled
              /\ adviceCalls' = adviceCalls
              /\ AdviceState' = "NotStarted" /\ aiLessons'.kind = "placeholder"
              /\ \A i \in DOMAIN entries' :
                     entries'[i].category =
                         IF entries'[i].id # 0
                         THEN FirstRule(entries'[i].content, entries'[i].start)
                         ELSE RELAX_BED
              /\ dashboard' = updateDashboard(entries')
              /\ resultsActive'
       /\ (pc' = "classify" /\ pc # "classify") =>
              apiKey' # "" /\ Len(getUserEntries(entries')) > 0
       /\ adviceCalls' # adviceCalls /\ adviceCalls \subseteq adviceCalls' =>
              apiKey' # ""]_vars

\* C27 witness: a second analysis has run without a key while the advice
\* call of the first is still on its way.
C27_Witness ==
    /\ lastEvent = "analyzeKeywords"
    /\ apiKey = ""
    /\ invocation = 2
    /\ adviceCalls = {1}
    /\ aiLessons = [kind |-> "placeholder", text |-> "", by |-> 2]

\* C28: a drop changes at most the category of one entry, the one whose
\* card was dropped (so one whose card is on the board), and nothing else of
\* the session but the dashboard; the dashboard is computed anew only by an
\* analysis or by a drop that changed a category.
C28_DropFrame ==
    [][/\ drops' # drops =>
              /\ \E i \in DOMAIN entries :
                     /\ entries[i].id \in KanbanIds
                     /\ entries'[i].category # entries[i].category
                     /\ entries' = [entries EXCEPT ![i].category = entries'[i].category]
              /\ appState'.thoughts = appState.thoughts
              /\ appState'.actions = appState.actions
              /\ UNCHANGED <<analyzeBtn, statusMsg, aiLessons, resultsActive, pc,
                             adviceCalls, invocation>>
       /\ dashboard' # dashboard =>
              \/ lastEvent' \in {"analyzeKeywords", "analyzeComplete", "analyzeFallback"}
              \/ drops' # drops]_vars

\* C29: within one invocation of handleAnalyzeLog the advice request is
\* issued only once the classification of its entries is over, by the
\* remote answer or by the keyword fallback after a remote failure; it is
\* issued in both cases; and the entry lines of its prompt carry the
\* categories the entries have after that classification.
C29_AdviceAfterClassification ==
    [][/\ pc' # "idle" => invocation' \notin adviceCalls'
       /\ adviceCalls' \ adviceCalls # {} =>
              /\ InContinuation
              /\ adviceCalls' \ adviceCalls = {invocation}
       /\ pc = "classify" /\ pc' # "classify" =>
              LET r == categorizeWithAI(entries, classifyResponse')
              IN  /\ entries' = r.entries
                  /\ pc' = IF r.ok THEN "classified" ELSE "classifyFailed"
       /\ pc = "classified" =>
              /\ invocation \in adviceCalls'
              /\ appState' = appState
              /\ adviceRequest' = AdviceContext(entries)
       /\ pc = "classifyFailed" =>
              /\ invocation \in adviceCalls'
              /\ entries' = categorizeWithKeywords(entries)
              /\ adviceRequest' = AdviceContext(entries')]_vars

\* The remote classification failed, the keyword fallback gave a user entry
\* a category other than the default, and the request went out with it.
C29_Witness ==
    /\ lastEvent = "analyzeFallback"
    /\ invocation \in adviceCalls
    /\ adviceRequest = AdviceContext(entries)
    /\ \E i \in DOMAIN entries :
           /\ entries[i].id # 0
           /\ adviceRequest[i].category \notin {ROUTINE, ""}

\* The analyze control is disabled exactly while an invocation of
\* handleAnalyzeLog is between its start and its finish.
DisabledWhileRunning == analyzeBtn.disabled <=> pc # "idle"

\* An invocation starts only when none is running and disables the control
\* when it has to wait; the control is enabled again by the step that
\* finishes the invocation, and by every such step.
StartsAndFinishes ==
    /\ invocation' # invocation =>
           /\ pc = "idle"
           /\ invocation' = invocation + 1
           /\ analyzeBtn'.disabled <=> lastEvent' = "analyzeStart"
    /\ ~analyzeBtn.disabled /\ analyzeBtn'.disabled =>
           invocation' = invocation + 1 /\ pc' = "classify"
    /\ analyzeBtn.disabled /\ ~analyzeBtn'.disabled =>
           /\ InContinuation /\ pc' = "idle"
           /\ lastEvent' \in {"analyzeComplete", "analyzeRenderFailed",
                               "analyzeFallback"}
    /\ InContinuation => ~analyzeBtn'.disabled

\* C30: the analyze control is disabled from the start of an invocation of
\* handleAnalyzeLog to its finish, on the success, the fallback and the
\* error path, and enabled again exactly at the finish; so an invocation
\* starts only when none is running, whatever advice calls of finished
\* invocations are still in flight.
C30_OneAnalysisAtATime ==
    /\ []DisabledWhileRunning
    /\ [][StartsAndFinishes]_vars

\* The second invocation waits for its classification with the control
\* disabled while the advice call of the first one is still in flight.
C30_Witness ==
    /\ pc = "classify"
    /\ analyzeBtn.disabled
    /\ invocation = 2
    /\ adviceCalls = {1}

====
